---- MODULE Spec2Model ----
(***************************************************************************)
(* Model of rust_core/src/price_monitor.rs: PriceMonitor, two HashMaps     *)
(* (alerts, prices) each behind its own RwLock, and the five operations    *)
(* add_alert, remove_alert, update_price, get_price, get_monitored_tokens  *)
(* called concurrently by a fixed set of threads.                          *)
(*                                                                         *)
(* Numbers: f64 prices and thresholds are modelled by integers and the     *)
(* returned change_percent by the exact fraction num/den, so comparisons   *)
(* are exact (no floating-point rounding, NaN or infinity).                *)
(* PriceData.timestamp (Utc::now()) and the always-None volume_24h and     *)
(* change_24h are not read by any operation and are left out.              *)
(***************************************************************************)
EXTENDS Integers, Sequences, FiniteSets, TLC

\* ------------------------------------------------------------------ bounds

\* Total number of calls the threads may start in one behaviour.
MaxCalls == 4

\* Threads calling into the monitor concurrently.
Threads == {1, 2}

\* Number of concurrent update_price calls in the batch scenario (SpecBatch).
BatchSize == 3

BatchThreads == 1..BatchSize

\* The batch scenario: the rule's threshold, its seeded reference price, and
\* the prices the concurrent calls carry.
BatchThreshold == {2}
BatchSeed == {100}
BatchPrices == {101, 102, 103, 104, 105}

\* Token arguments.
Tokens == {"SOL", "BTC"}

\* price arguments of update_price, per token. SOL takes the invalid prices
\* (negative, zero) and the valid ones; with threshold 2, 100->102 is exactly
\* 2%, 100->104 is above, 102->104 and 104->102 are below (1.96%, -1.92%),
\* 104->100 is a downward crossing, -100->-101 is a change of 1%. BTC, the
\* second token, takes two valid prices that cross each other's threshold.
PriceInputs(t) == IF t = "SOL" THEN {-101, -100, 0, 100, 102, 104} ELSE {100, 104}

\* threshold_percent arguments of add_alert, per token: invalid (zero) and
\* valid.
ThresholdInputs(t) == IF t = "SOL" THEN {0, 2} ELSE {2}

\* ------------------------------------------------------------------ state

VARIABLES
    alerts,       \* PriceMonitor.alerts: HashMap<String, PriceAlert>
    prices,       \* PriceMonitor.prices: HashMap<String, PriceData>
    alertsLock,   \* the RwLock around alerts
    pricesLock,   \* the RwLock around prices
    pc,           \* per thread: position in the operation it runs
    op,           \* per thread: the call it runs or last ran
    alert,        \* per thread: update_price's view of the rule it got
    result,       \* per thread: return value of its last completed call
    calls,        \* number of calls started so far
    unseen,       \* history: tokens registered and not yet evaluated since
    prevRef,      \* history: last_price of the rule the latest add_alert or
                  \*          remove_alert of the token discarded (0 if none)
    lastReg,      \* history: latest completed registry change per token
    lastEval,     \* history: price of the latest evaluation per token
    ascending,    \* history: every evaluation had a higher price than the
                  \*          previous evaluation of the same token
    lastValid     \* history: price of the latest completed update_price
                  \*          with price > 0, per token

vars == <<alerts, prices, alertsLock, pricesLock, pc, op, alert, result,
          calls, unseen, prevRef, lastReg, lastEval, ascending, lastValid>>

hist == <<unseen, prevRef, lastReg, lastEval, ascending, lastValid>>

\* ------------------------------------------------------------------ values

NoThread == 0

\* An RwLock nobody holds.
Unlocked == [writer |-> NoThread, readers |-> {}]

\* Mutant: write() that excludes nobody.
CanWriteNoExclusion(lock) == TRUE

\* RwLock::write() can return: no writer and no reader holds the lock.
CanWrite(lock) == lock.writer = NoThread /\ lock.readers = {}

\* RwLock::read() can return: no writer holds the lock.
CanRead(lock) == lock.writer = NoThread

\* HashMap::insert
MapInsert(map, k, v) == [x \in DOMAIN map \cup {k} |-> IF x = k THEN v ELSE map[x]]

\* Mutant: remove that leaves the entry in place.
MapRemoveKeeps(map, k) == map

\* HashMap::remove
MapRemove(map, k) == [x \in DOMAIN map \ {k} |-> map[x]]

EmptyMap == [x \in {} |-> 0]

\* Return values.
OkUnit == [kind |-> "Ok(())"]
OkNone == [kind |-> "Ok(None)"]
OkSome(n, d) == [kind |-> "Ok(Some)", num |-> n, den |-> d]
OkVec(s) == [kind |-> "Ok(Vec)", tokens |-> s]
Err(e) == [kind |-> "Err", error |-> e]
NoResult == [kind |-> "none"]

NoCall == [name |-> "none", token |-> "SOL", arg |-> 0]
NoAlert == [found |-> FALSE, threshold_percent |-> 0, last_price |-> 0]

Abs(x) == IF x < 0 THEN -x ELSE x

\* Mutant: the rule starts with last_price taken from the threshold.
NewAlertSeeded(token, threshold_percent) ==
    [token |-> token, threshold_percent |-> threshold_percent,
     last_price |-> threshold_percent, active |-> TRUE]

\* The PriceAlert add_alert builds.
NewAlert(token, threshold_percent) ==
    [token |-> token, threshold_percent |-> threshold_percent,
     last_price |-> 0, active |-> TRUE]

\* Mutant: re-registration keeps the last_price of the rule it replaces.
InsertAlertKeepsReference(map, token, threshold_percent) ==
    MapInsert(map, token,
              [NewAlert(token, threshold_percent) EXCEPT !.last_price =
                  IF token \in DOMAIN map THEN map[token].last_price ELSE 0])

\* alerts.insert(token, alert) with the rule add_alert builds.
InsertAlert(map, token, threshold_percent) ==
    MapInsert(map, token, NewAlert(token, threshold_percent))

\* The PriceData update_price builds.
NewPriceData(token, price) == [token |-> token, price |-> price]

\* alert.last_price > 0.0
IsSeeded(last_price) == last_price > 0

\* ((price - last_price) / last_price) * 100.0, as the fraction num/den.
ChangePercent(price, last_price) ==
    [num |-> (price - last_price) * 100, den |-> last_price]

\* change_percent.abs() >= alert.threshold_percent, for den > 0.
Crosses(cp, threshold_percent) == Abs(cp.num) >= threshold_percent * cp.den

\* Mutant: a firing update does not move last_price.
EvalLastPriceNoRebaseline(a, price) ==
    IF IsSeeded(a.last_price) THEN a.last_price ELSE price

\* What update_price does with the rule it got: the new last_price.
EvalLastPrice(a, price) ==
    IF IsSeeded(a.last_price)
    THEN IF Crosses(ChangePercent(price, a.last_price), a.threshold_percent)
         THEN price
         ELSE a.last_price
    ELSE price

\* What update_price returns for the rule it got.
EvalResult(a, price) ==
    IF a.found /\ IsSeeded(a.last_price)
         /\ Crosses(ChangePercent(price, a.last_price), a.threshold_percent)
    THEN OkSome(ChangePercent(price, a.last_price).num,
                ChangePercent(price, a.last_price).den)
    ELSE OkNone

\* alerts.get_mut(&token): the rule update_price works on, if any.
GetAlert(map, token) ==
    IF token \in DOMAIN map
    THEN [found |-> TRUE,
          threshold_percent |-> map[token].threshold_percent,
          last_price |-> map[token].last_price]
    ELSE NoAlert

\* Mutant: the write goes to a copy of the rule; the map keeps the old one.
EvalAlertsNoWrite(map, a, token, price) == map

\* Mutant: a rule that fires is removed (a one-shot alert).
EvalAlertsOneShot(map, a, token, price) ==
    IF a.found /\ token \in DOMAIN map
    THEN IF EvalResult(a, price).kind = "Ok(Some)"
         THEN MapRemove(map, token)
         ELSE [map EXCEPT ![token].last_price = EvalLastPrice(a, price)]
    ELSE map

\* Mutant: a token without a rule gets one (entry().or_insert instead of
\* get_mut), seeded with the price.
EvalAlertsUpsert(map, a, token, price) ==
    IF a.found /\ token \in DOMAIN map
    THEN [map EXCEPT ![token].last_price = EvalLastPrice(a, price)]
    ELSE MapInsert(map, token, [NewAlert(token, 0) EXCEPT !.last_price = price])

\* The map after update_price's conditional write through the rule it got.
EvalAlerts(map, a, token, price) ==
    IF a.found /\ token \in DOMAIN map
    THEN [map EXCEPT ![token].last_price = EvalLastPrice(a, price)]
    ELSE map

\* The alerts the monitor has counted as dropped. PriceMonitor has the fields
\* alerts and prices and no count of any kind; update_price hands a fired
\* change_percent to its caller and records nothing else.
DropCounter == 0

\* prices.get(token).map(|p| p.price), as get_price returns it.
PriceOf(map, token) ==
    IF token \in DOMAIN map THEN OkSome(map[token].price, 1) ELSE OkNone

\* ------------------------------------------------------------------ init

Init ==
    /\ alerts = EmptyMap
    /\ prices = EmptyMap
    /\ alertsLock = Unlocked
    /\ pricesLock = Unlocked
    /\ pc = [i \in Threads |-> "idle"]
    /\ op = [i \in Threads |-> NoCall]
    /\ alert = [i \in Threads |-> NoAlert]
    /\ result = [i \in Threads |-> NoResult]
    /\ calls = 0
    /\ unseen = {}
    /\ prevRef = [t \in Tokens |-> 0]
    /\ lastReg = [t \in Tokens |-> "none"]
    /\ lastEval = EmptyMap
    /\ ascending = TRUE
    /\ lastValid = EmptyMap

\* ------------------------------------------------------------------ calls

\* An idle thread enters a call: the arguments are bound and the call is at
\* its first statement, the acquisition of its first lock.
Start(i, name, token, arg) ==
    /\ pc[i] = "idle"
    /\ calls < MaxCalls
    /\ calls' = calls + 1
    /\ op' = [op EXCEPT ![i] = [name |-> name, token |-> token, arg |-> arg]]
    /\ result' = [result EXCEPT ![i] = NoResult]

\* ------------------------------------------------------------------ add_alert

\* let mut alerts = self.alerts.write()
AcquireAlertsAdd(i) ==
    /\ CanWrite(alertsLock)
    /\ alertsLock' = [alertsLock EXCEPT !.writer = i]
    /\ pc' = [pc EXCEPT ![i] = "add_insert"]
    /\ UNCHANGED <<alerts, prices, pricesLock, alert, hist>>

AddLock(i) ==
    /\ \E t \in Tokens : \E th \in ThresholdInputs(t) : Start(i, "add_alert", t, th)
    /\ AcquireAlertsAdd(i)

\* alerts.insert(token, PriceAlert { .., last_price: 0.0, active: true });
\* Ok(()): the guard is dropped on return.
AddInsert(i) ==
    /\ pc[i] = "add_insert"
    /\ alerts' = InsertAlert(alerts, op[i].token, op[i].arg)
    /\ alertsLock' = [alertsLock EXCEPT !.writer = NoThread]
    /\ result' = [result EXCEPT ![i] = OkUnit]
    /\ pc' = [pc EXCEPT ![i] = "idle"]
    /\ unseen' = unseen \cup {op[i].token}
    /\ prevRef' = [prevRef EXCEPT ![op[i].token] =
                      IF op[i].token \in DOMAIN alerts
                      THEN alerts[op[i].token].last_price ELSE 0]
    /\ lastReg' = [lastReg EXCEPT ![op[i].token] = "add"]
    /\ UNCHANGED <<prices, pricesLock, op, alert, calls, lastEval, ascending, lastValid>>

\* ------------------------------------------------------------------ remove_alert

\* let mut alerts = self.alerts.write()
AcquireAlertsRemove(i) ==
    /\ CanWrite(alertsLock)
    /\ alertsLock' = [alertsLock EXCEPT !.writer = i]
    /\ pc' = [pc EXCEPT ![i] = "rm_remove"]
    /\ UNCHANGED <<alerts, prices, pricesLock, alert, hist>>

RemoveLock(i) ==
    /\ \E t \in Tokens : Start(i, "remove_alert", t, 0)
    /\ AcquireAlertsRemove(i)

\* Mutant: removing a token that has no rule is reported as an error.
RemoveResultStrict(map, token) ==
    IF token \in DOMAIN map THEN OkUnit ELSE Err("NotFound")

\* What remove_alert returns: the value alerts.remove gives is dropped.
RemoveResult(map, token) == OkUnit

\* alerts.remove(token); Ok(()): the guard is dropped on return.
RemoveRemove(i) ==
    /\ pc[i] = "rm_remove"
    /\ alerts' = MapRemove(alerts, op[i].token)
    /\ alertsLock' = [alertsLock EXCEPT !.writer = NoThread]
    /\ result' = [result EXCEPT ![i] = RemoveResult(alerts, op[i].token)]
    /\ pc' = [pc EXCEPT ![i] = "idle"]
    /\ unseen' = unseen \ {op[i].token}
    /\ prevRef' = [prevRef EXCEPT ![op[i].token] =
                      IF op[i].token \in DOMAIN alerts
                      THEN alerts[op[i].token].last_price ELSE 0]
    /\ lastReg' = [lastReg EXCEPT ![op[i].token] = "remove"]
    /\ UNCHANGED <<prices, pricesLock, op, alert, calls, lastEval, ascending, lastValid>>

\* ------------------------------------------------------------------ update_price

\* let mut prices = self.prices.write()
AcquirePrices(i) ==
    /\ CanWrite(pricesLock)
    /\ pricesLock' = [pricesLock EXCEPT !.writer = i]
    /\ pc' = [pc EXCEPT ![i] = "up_insert"]
    /\ UNCHANGED <<alerts, prices, alertsLock, alert, hist>>

UpLockPrices(i) ==
    /\ \E t \in Tokens : \E p \in PriceInputs(t) : Start(i, "update_price", t, p)
    /\ AcquirePrices(i)

\* Mutant: the prices guard is dropped right after the insert, before the
\* alerts lock is taken.
UpInsertReleasesPrices(i) ==
    /\ pc[i] = "up_insert"
    /\ prices' = MapInsert(prices, op[i].token, NewPriceData(op[i].token, op[i].arg))
    /\ pricesLock' = [pricesLock EXCEPT !.writer = NoThread]
    /\ pc' = [pc EXCEPT ![i] = "up_lock_alerts"]
    /\ UNCHANGED <<alerts, alertsLock, op, alert, result, calls, hist>>

\* prices.insert(token.clone(), price_data)
UpInsert(i) ==
    /\ pc[i] = "up_insert"
    /\ prices' = MapInsert(prices, op[i].token, NewPriceData(op[i].token, op[i].arg))
    /\ pc' = [pc EXCEPT ![i] = "up_lock_alerts"]
    /\ UNCHANGED <<alerts, alertsLock, pricesLock, op, alert, result, calls, hist>>

\* let mut alerts = self.alerts.write()
UpLockAlerts(i) ==
    /\ pc[i] = "up_lock_alerts"
    /\ CanWrite(alertsLock)
    /\ alertsLock' = [alertsLock EXCEPT !.writer = i]
    /\ pc' = [pc EXCEPT ![i] = "up_get"]
    /\ UNCHANGED <<alerts, prices, pricesLock, op, alert, result, calls, hist>>

\* if let Some(alert) = alerts.get_mut(&token): the rule, and the last_price
\* the comparison is made against.
UpGet(i) ==
    /\ pc[i] = "up_get"
    /\ alert' = [alert EXCEPT ![i] = GetAlert(alerts, op[i].token)]
    /\ pc' = [pc EXCEPT ![i] = "up_eval"]
    /\ UNCHANGED <<alerts, prices, alertsLock, pricesLock, op, result, calls, hist>>

\* The comparison and the conditional write of alert.last_price; the return
\* value is decided here.
UpEval(i) ==
    /\ pc[i] = "up_eval"
    /\ alerts' = EvalAlerts(alerts, alert[i], op[i].token, op[i].arg)
    /\ result' = [result EXCEPT ![i] = EvalResult(alert[i], op[i].arg)]
    /\ pc' = [pc EXCEPT ![i] = "up_unlock_alerts"]
    /\ unseen' = unseen \ {op[i].token}
    /\ lastEval' = MapInsert(lastEval, op[i].token, op[i].arg)
    /\ ascending' = (ascending /\ (op[i].token \in DOMAIN lastEval
                                     => op[i].arg > lastEval[op[i].token]))
    /\ UNCHANGED <<prices, alertsLock, pricesLock, op, alert, calls, prevRef, lastReg,
                   lastValid>>

\* Mutant: the alerts guard is leaked, the lock is never released.
UpUnlockAlertsLeaks(i) ==
    /\ pc[i] = "up_unlock_alerts"
    /\ alert' = [alert EXCEPT ![i] = NoAlert]
    /\ pc' = [pc EXCEPT ![i] = "up_unlock_prices"]
    /\ UNCHANGED <<alerts, prices, alertsLock, pricesLock, op, result, calls, hist>>

\* On return the guards are dropped in reverse order of declaration:
\* alerts (and with it the borrowed rule) first,
UpUnlockAlerts(i) ==
    /\ pc[i] = "up_unlock_alerts"
    /\ alertsLock' = [alertsLock EXCEPT !.writer = NoThread]
    /\ alert' = [alert EXCEPT ![i] = NoAlert]
    /\ pc' = [pc EXCEPT ![i] = "up_unlock_prices"]
    /\ UNCHANGED <<alerts, prices, pricesLock, op, result, calls, hist>>

\* then prices.
UpUnlockPrices(i) ==
    /\ pc[i] = "up_unlock_prices"
    /\ pricesLock' = [pricesLock EXCEPT !.writer = NoThread]
    /\ pc' = [pc EXCEPT ![i] = "idle"]
    /\ lastValid' = IF op[i].arg > 0
                    THEN MapInsert(lastValid, op[i].token, op[i].arg)
                    ELSE lastValid
    /\ UNCHANGED <<alerts, prices, alertsLock, op, alert, result, calls,
                   unseen, prevRef, lastReg, lastEval, ascending>>

\* ------------------------------------------------------------------ get_price

\* let prices = self.prices.read()
AcquirePricesRead(i) ==
    /\ CanRead(pricesLock)
    /\ pricesLock' = [pricesLock EXCEPT !.readers = @ \cup {i}]
    /\ pc' = [pc EXCEPT ![i] = "gp_read"]
    /\ UNCHANGED <<alerts, prices, alertsLock, alert, hist>>

GetPriceLock(i) ==
    /\ \E t \in Tokens : Start(i, "get_price", t, 0)
    /\ AcquirePricesRead(i)

\* Ok(prices.get(token).map(|p| p.price)); the guard is dropped on return.
GetPriceRead(i) ==
    /\ pc[i] = "gp_read"
    /\ result' = [result EXCEPT ![i] = PriceOf(prices, op[i].token)]
    /\ pricesLock' = [pricesLock EXCEPT !.readers = @ \ {i}]
    /\ pc' = [pc EXCEPT ![i] = "idle"]
    /\ UNCHANGED <<alerts, prices, alertsLock, op, alert, calls, hist>>

\* ------------------------------------------------------------------ get_monitored_tokens

\* let alerts = self.alerts.read()
AcquireAlertsRead(i) ==
    /\ CanRead(alertsLock)
    /\ alertsLock' = [alertsLock EXCEPT !.readers = @ \cup {i}]
    /\ pc' = [pc EXCEPT ![i] = "gm_read"]
    /\ UNCHANGED <<alerts, prices, pricesLock, alert, hist>>

GetMonitoredLock(i) ==
    /\ Start(i, "get_monitored_tokens", "SOL", 0)
    /\ AcquireAlertsRead(i)

\* Ok(alerts.keys().cloned().collect()); the guard is dropped on return.
GetMonitoredRead(i) ==
    /\ pc[i] = "gm_read"
    /\ result' = [result EXCEPT ![i] = OkVec(DOMAIN alerts)]
    /\ alertsLock' = [alertsLock EXCEPT !.readers = @ \ {i}]
    /\ pc' = [pc EXCEPT ![i] = "idle"]
    /\ UNCHANGED <<alerts, prices, pricesLock, op, alert, calls, hist>>

\* ------------------------------------------------------------------ specification

Next ==
    \E i \in Threads :
        \/ AddLock(i)
        \/ AddInsert(i)
        \/ RemoveLock(i)
        \/ RemoveRemove(i)
        \/ UpLockPrices(i)
        \/ UpInsert(i)
        \/ UpLockAlerts(i)
        \/ UpGet(i)
        \/ UpEval(i)
        \/ UpUnlockAlerts(i)
        \/ UpUnlockPrices(i)
        \/ GetPriceLock(i)
        \/ GetPriceRead(i)
        \/ GetMonitoredLock(i)
        \/ GetMonitoredRead(i)

Spec == Init /\ [][Next]_vars

\* ------------------------------------------------------------------ batch scenario

\* How many of the prices ps fire when update_price evaluates them one after
\* the other, in the order of ps, starting from rule a.
RECURSIVE FiresInOrder(_, _)
FiresInOrder(a, ps) ==
    IF ps = <<>> THEN 0
    ELSE (IF EvalResult(a, Head(ps)).kind = "Ok(Some)" THEN 1 ELSE 0)
         + FiresInOrder([a EXCEPT !.last_price = EvalLastPrice(a, Head(ps))], Tail(ps))

\* The calls of a batch: thread k carries the k-th price of a strictly
\* increasing run above the seed that, evaluated in increasing order, crosses
\* the threshold exactly once.
BatchCalls(th, seed) ==
    {f \in [BatchThreads -> [name : {"update_price"}, token : {"SOL"}, arg : BatchPrices]] :
        /\ \A k \in BatchThreads : f[k].arg > seed
        /\ \A k \in BatchThreads : k + 1 \in BatchThreads => f[k].arg < f[k + 1].arg
        /\ FiresInOrder([found |-> TRUE, threshold_percent |-> th, last_price |-> seed],
                        [k \in 1..BatchSize |-> f[k].arg]) = 1}

\* The state after add_alert("SOL", th) and update_price("SOL", seed), with
\* BatchSize update_price calls for SOL issued at once, none of them past its
\* first statement.
InitBatch ==
    \E th \in BatchThreshold, seed \in BatchSeed :
        /\ alerts = [t \in {"SOL"} |-> [NewAlert("SOL", th) EXCEPT !.last_price = seed]]
        /\ prices = [t \in {"SOL"} |-> NewPriceData("SOL", seed)]
        /\ alertsLock = Unlocked
        /\ pricesLock = Unlocked
        /\ pc = [i \in BatchThreads |-> "up_lock_prices"]
        /\ op \in BatchCalls(th, seed)
        /\ alert = [i \in BatchThreads |-> NoAlert]
        /\ result = [i \in BatchThreads |-> NoResult]
        /\ calls = BatchSize + 2
        /\ unseen = {}
        /\ prevRef = [t \in Tokens |-> 0]
        /\ lastReg = [t \in Tokens |-> IF t = "SOL" THEN "add" ELSE "none"]
        /\ lastEval = [t \in {"SOL"} |-> seed]
        /\ ascending = TRUE
        /\ lastValid = [t \in {"SOL"} |-> seed]

\* let mut prices = self.prices.write(), by a call of the batch.
BatchLockPrices(i) ==
    /\ pc[i] = "up_lock_prices"
    /\ AcquirePrices(i)
    /\ UNCHANGED <<op, result, calls>>

NextBatch ==
    \E i \in BatchThreads :
        \/ BatchLockPrices(i)
        \/ UpInsert(i)
        \/ UpLockAlerts(i)
        \/ UpGet(i)
        \/ UpEval(i)
        \/ UpUnlockAlerts(i)
        \/ UpUnlockPrices(i)

SpecBatch == InitBatch /\ [][NextBatch]_vars

\* ------------------------------------------------------------------ calls that wait

\* The calls a thread makes when the wait for the first lock is a step of its
\* own: the arguments are few, the locks do not look at them.
WaitingPrices == {100}
WaitingThresholds == {2}

\* A call is made: the thread stands before its first lock.
Call(i, name, token, arg, at) ==
    /\ Start(i, name, token, arg)
    /\ pc' = [pc EXCEPT ![i] = at]
    /\ UNCHANGED <<alerts, prices, alertsLock, pricesLock, alert, hist>>

CallAdd(i) ==
    \E t \in Tokens : \E th \in WaitingThresholds :
        Call(i, "add_alert", t, th, "add_lock")

CallRemove(i) == \E t \in Tokens : Call(i, "remove_alert", t, 0, "rm_lock")

CallUpdate(i) ==
    \E t \in Tokens : \E p \in WaitingPrices :
        Call(i, "update_price", t, p, "up_lock_prices")

CallGetPrice(i) == \E t \in Tokens : Call(i, "get_price", t, 0, "gp_lock")

CallGetMonitored(i) == Call(i, "get_monitored_tokens", "SOL", 0, "gm_lock")

\* The first lock of each call, taken when the lock allows it.
WaitAddLock(i) ==
    /\ pc[i] = "add_lock"
    /\ AcquireAlertsAdd(i)
    /\ UNCHANGED <<op, result, calls>>

WaitRemoveLock(i) ==
    /\ pc[i] = "rm_lock"
    /\ AcquireAlertsRemove(i)
    /\ UNCHANGED <<op, result, calls>>

WaitGetPriceLock(i) ==
    /\ pc[i] = "gp_lock"
    /\ AcquirePricesRead(i)
    /\ UNCHANGED <<op, result, calls>>

WaitGetMonitoredLock(i) ==
    /\ pc[i] = "gm_lock"
    /\ AcquireAlertsRead(i)
    /\ UNCHANGED <<op, result, calls>>

\* A step of a call already made by thread i.
Proceed(i) ==
    \/ WaitAddLock(i)
    \/ AddInsert(i)
    \/ WaitRemoveLock(i)
    \/ RemoveRemove(i)
    \/ BatchLockPrices(i)
    \/ UpInsert(i)
    \/ UpLockAlerts(i)
    \/ UpGet(i)
    \/ UpEval(i)
    \/ UpUnlockAlerts(i)
    \/ UpUnlockPrices(i)
    \/ WaitGetPriceLock(i)
    \/ GetPriceRead(i)
    \/ WaitGetMonitoredLock(i)
    \/ GetMonitoredRead(i)

NextWaiting ==
    \E i \in Threads :
        \/ CallAdd(i)
        \/ CallRemove(i)
        \/ CallUpdate(i)
        \/ CallGetPrice(i)
        \/ CallGetMonitored(i)
        \/ Proceed(i)

\* Fair scheduling: a thread whose call can take a step again and again
\* takes one; no thread is obliged to make a call.
SpecFair ==
    Init /\ [][NextWaiting]_vars /\ \A i \in Threads : SF_vars(Proceed(i))

\* ------------------------------------------------------------------ properties

\* Thread i takes update_price's compare-and-write step.
Evaluates(i) == pc[i] = "up_eval" /\ pc'[i] = "up_unlock_alerts"

\* Thread i has read the rule and not yet compared and written.
InEvaluation(i) == pc[i] \in {"up_get", "up_eval"}

\* |(p - r) / r * 100| >= th, for r # 0, without the division.
MovesAtLeast(p, r, th) == Abs((p - r) * 100) >= th * Abs(r)

\* C1: the read-reference / compare / conditionally-write sequences of
\* update_price calls never interleave: at most one thread is inside the
\* sequence, and the rule a thread compares against is, when it compares,
\* still the rule in the map (never a stale copy another call has since
\* advanced or replaced).
AtomicEvaluate ==
    /\ \A i \in DOMAIN pc :
         pc[i] = "up_eval" => alert[i] = GetAlert(alerts, op[i].token)
    /\ \A i, j \in DOMAIN pc :
         (i # j /\ InEvaluation(i)) => ~InEvaluation(j)

\* C1 witness: a thread is about to fire against the reference price that
\* another thread's firing update_price of the same token left.
AtomicEvaluateWitness ==
    \E i, j \in DOMAIN pc :
        /\ i # j
        /\ op[j].name = "update_price" /\ result[j].kind = "Ok(Some)"
        /\ op[i].name = "update_price" /\ op[i].token = op[j].token
        /\ pc[i] = "up_eval" /\ alert[i].found
        /\ alert[i].last_price = op[j].arg
        /\ EvalResult(alert[i], op[i].arg).kind = "Ok(Some)"

\* The calls of the batch have all returned.
BatchDone == \A i \in DOMAIN pc : pc[i] = "idle"

\* Number of calls that returned a change_percent.
FiredCount == Cardinality({i \in DOMAIN pc : result[i].kind = "Ok(Some)"})

\* C2 as stated: the concurrent calls of a batch (strictly increasing prices
\* crossing the threshold exactly once) produce exactly one alert in every
\* interleaving.
ExactlyOneAlert == BatchDone => FiredCount = 1

\* C2 amended: the batch produces at least one alert in every interleaving,
\* and exactly one when the calls are evaluated in increasing price order.
AtLeastOneAlert ==
    BatchDone => (FiredCount >= 1 /\ (ascending => FiredCount = 1))

\* C2 witness: a batch has completed in increasing price order with one alert.
AtLeastOneAlertWitness == BatchDone /\ ascending /\ FiredCount = 1

\* C3: the first update_price evaluated for a token after add_alert returns
\* no alert whatever its price, sets the rule's last_price to that price, and
\* get_price then gives that price.
BaselineSeeding ==
    [][\A i \in DOMAIN pc :
          (Evaluates(i) /\ op[i].token \in unseen) =>
              /\ result'[i] = OkNone
              /\ op[i].token \in DOMAIN alerts'
              /\ alerts'[op[i].token].last_price = op[i].arg
              /\ PriceOf(prices', op[i].token) = OkSome(op[i].arg, 1)]_vars

\* C3 witness: an update_price with a valid price found the rule unset,
\* returned no alert and left its price as the reference and in the store.
BaselineSeedingWitness ==
    \E i \in DOMAIN pc :
        /\ pc[i] = "up_unlock_alerts"
        /\ alert[i].found /\ alert[i].last_price = 0
        /\ op[i].arg > 0
        /\ result[i] = OkNone
        /\ alerts[op[i].token].last_price = op[i].arg
        /\ prices[op[i].token].price = op[i].arg

\* C4: when the rule has a non-zero reference r and the price p moves at
\* least threshold_percent away from it, update_price returns
\* (p - r) / r * 100 and sets the reference to p.
ThresholdCrossingFires ==
    [][\A i \in DOMAIN pc :
          (/\ Evaluates(i)
           /\ alert[i].found
           /\ alert[i].last_price # 0
           /\ MovesAtLeast(op[i].arg, alert[i].last_price, alert[i].threshold_percent)) =>
              /\ result'[i] = OkSome((op[i].arg - alert[i].last_price) * 100,
                                     alert[i].last_price)
              /\ alerts'[op[i].token].last_price = op[i].arg]_vars

\* C4 for a positive reference only (alert.last_price > 0.0): the part of C4
\* the code keeps. A negative reference, which only an update_price with a
\* negative price can leave, takes the "first price update" branch.
ThresholdCrossingFiresPositive ==
    [][\A i \in DOMAIN pc :
          (/\ Evaluates(i)
           /\ alert[i].found
           /\ alert[i].last_price > 0
           /\ MovesAtLeast(op[i].arg, alert[i].last_price, alert[i].threshold_percent)) =>
              /\ result'[i] = OkSome((op[i].arg - alert[i].last_price) * 100,
                                     alert[i].last_price)
              /\ alerts'[op[i].token].last_price = op[i].arg]_vars

\* C5: when the rule has a non-zero reference r and the price p moves less
\* than threshold_percent away from it, update_price returns no alert and
\* leaves the reference at r, while the stored price becomes p.
SubThresholdKeepsReference ==
    [][\A i \in DOMAIN pc :
          (/\ Evaluates(i)
           /\ alert[i].found
           /\ alert[i].last_price # 0
           /\ ~MovesAtLeast(op[i].arg, alert[i].last_price, alert[i].threshold_percent)) =>
              /\ result'[i] = OkNone
              /\ alerts'[op[i].token].last_price = alert[i].last_price
              /\ PriceOf(prices', op[i].token) = OkSome(op[i].arg, 1)]_vars

\* C5 for a positive reference only: the part of C5 the code keeps.
SubThresholdKeepsReferencePositive ==
    [][\A i \in DOMAIN pc :
          (/\ Evaluates(i)
           /\ alert[i].found
           /\ alert[i].last_price > 0
           /\ ~MovesAtLeast(op[i].arg, alert[i].last_price, alert[i].threshold_percent)) =>
              /\ result'[i] = OkNone
              /\ alerts'[op[i].token].last_price = alert[i].last_price
              /\ PriceOf(prices', op[i].token) = OkSome(op[i].arg, 1)]_vars

\* Thread i takes a step of the named operation.
StepsIn(i, name) == op'[i].name = name /\ <<pc[i], op[i]>> # <<pc'[i], op'[i]>>

\* C6: update_price with price <= 0 fails with InvalidPrice and changes
\* neither the price store nor any rule.
InvalidPriceRejected ==
    [][\A i \in DOMAIN pc :
          (StepsIn(i, "update_price") /\ op'[i].arg <= 0) =>
              /\ prices' = prices
              /\ alerts' = alerts
              /\ (pc'[i] = "idle" => result'[i] = Err("InvalidPrice"))]_vars

\* C7: add_alert with threshold_percent <= 0 fails with InvalidThreshold and
\* creates or replaces no rule.
InvalidThresholdRejected ==
    [][\A i \in DOMAIN pc :
          (StepsIn(i, "add_alert") /\ op'[i].arg <= 0) =>
              /\ alerts' = alerts
              /\ (pc'[i] = "idle" => result'[i] = Err("InvalidThreshold"))]_vars

\* C8: from the completion of add_alert(T, p), p > 0, until a remove_alert(T)
\* the rule of T stays in the map, whatever update_price calls and calls on
\* other tokens happen, and every get_monitored_tokens returns T.
MonitoredUntilRemoved ==
    [][/\ \A i \in DOMAIN pc :
            (pc[i] = "add_insert" /\ pc'[i] = "idle" /\ op[i].arg > 0) =>
                op[i].token \in DOMAIN alerts'
       /\ \A t \in Tokens :
            (t \in DOMAIN alerts /\ t \notin DOMAIN alerts') =>
                \E i \in DOMAIN pc :
                    pc[i] = "rm_remove" /\ pc'[i] = "idle" /\ op[i].token = t
       /\ \A i \in DOMAIN pc :
            (pc[i] = "gm_read" /\ pc'[i] = "idle") =>
                /\ result'[i].kind = "Ok(Vec)"
                /\ \A t \in Tokens : lastReg[t] = "add" => t \in result'[i].tokens]_vars

\* C8 witness: get_monitored_tokens has returned SOL, registered with a
\* valid threshold, with a fired update_price of SOL and a call on BTC by
\* the other thread behind it.
MonitoredUntilRemovedWitness ==
    \E i, j \in DOMAIN pc :
        /\ op[i].name = "get_monitored_tokens"
        /\ result[i].kind = "Ok(Vec)" /\ "SOL" \in result[i].tokens
        /\ "SOL" \in DOMAIN alerts /\ alerts["SOL"].threshold_percent > 0
        /\ alerts["SOL"].last_price > 0
        /\ "BTC" \in DOMAIN prices
        /\ j # i /\ pc[j] = "idle"

\* C9: add_alert on a token puts the whole new rule in the map, threshold
\* as given, last_price 0 and active, whatever rule it replaces; no
\* update_price is between reading and writing the rule when that happens;
\* and the next update_price of the token only seeds the baseline.
ReRegistrationResets ==
    [][/\ \A i \in DOMAIN pc :
            (pc[i] = "add_insert" /\ pc'[i] = "idle") =>
                /\ op[i].token \in DOMAIN alerts'
                /\ alerts'[op[i].token] =
                       [token |-> op[i].token, threshold_percent |-> op[i].arg,
                        last_price |-> 0, active |-> TRUE]
                /\ \A j \in DOMAIN pc : ~InEvaluation(j)
       /\ \A i \in DOMAIN pc :
            (Evaluates(i) /\ op[i].token \in unseen /\ prevRef[op[i].token] # 0) =>
                /\ alert[i] = [found |-> TRUE,
                               threshold_percent |-> alerts[op[i].token].threshold_percent,
                               last_price |-> 0]
                /\ result'[i] = OkNone
                /\ alerts'[op[i].token].last_price = op[i].arg]_vars

\* C9 witness: after a re-registration that discarded a seeded reference, an
\* update_price whose price crosses the threshold against that discarded
\* reference has only seeded the new rule.
ReRegistrationResetsWitness ==
    \E i \in DOMAIN pc :
        /\ pc[i] = "up_unlock_alerts"
        /\ lastReg[op[i].token] = "add"
        /\ prevRef[op[i].token] > 0
        /\ alert[i].found /\ alert[i].last_price = 0
        /\ alert[i].threshold_percent > 0
        /\ MovesAtLeast(op[i].arg, prevRef[op[i].token], alert[i].threshold_percent)
        /\ result[i] = OkNone
        /\ alerts[op[i].token].last_price = op[i].arg

\* C10: once remove_alert(T) has completed and until a later add_alert(T)
\* completes, T has no rule, and every update_price of T evaluated in that
\* period returns no alert and creates no rule.
UnregisterEffective ==
    [][/\ \A t \in Tokens : lastReg'[t] = "remove" => t \notin DOMAIN alerts'
       /\ \A i \in DOMAIN pc :
            (Evaluates(i) /\ lastReg[op[i].token] = "remove") =>
                /\ result'[i] = OkNone
                /\ op[i].token \notin DOMAIN alerts']_vars

\* C10 witness: after the removal of a seeded rule, an update_price whose
\* price crosses the threshold against the removed reference has returned no
\* alert, and the token has no rule.
UnregisterEffectiveWitness ==
    \E i \in DOMAIN pc :
        /\ pc[i] = "up_unlock_alerts"
        /\ lastReg[op[i].token] = "remove"
        /\ prevRef[op[i].token] > 0
        /\ MovesAtLeast(op[i].arg, prevRef[op[i].token], 2)
        /\ result[i] = OkNone
        /\ op[i].token \notin DOMAIN alerts

\* Thread i takes remove_alert's remove-and-return step.
Removes(i) == pc[i] = "rm_remove" /\ pc'[i] = "idle"

\* C11: remove_alert on a token with no rule returns Ok(()) and changes
\* neither rules nor prices; every remove_alert leaves the token without a
\* rule, so that removing it again changes nothing.
UnregisterIdempotent ==
    [][\A i \in DOMAIN pc :
          Removes(i) =>
              /\ result'[i] = OkUnit
              /\ prices' = prices
              /\ (op[i].token \notin DOMAIN alerts => alerts' = alerts)
              /\ op[i].token \notin DOMAIN alerts'
              /\ MapRemove(alerts', op[i].token) = alerts']_vars

\* C11 witness: both threads have returned from remove_alert("SOL") within
\* three calls, so one of them found no rule; the stored price of SOL and the
\* rule of BTC, if any, are still there.
UnregisterIdempotentWitness ==
    /\ calls <= 3
    /\ \A i \in DOMAIN pc :
         /\ pc[i] = "idle"
         /\ op[i] = [name |-> "remove_alert", token |-> "SOL", arg |-> 0]
         /\ result[i] = OkUnit
    /\ "SOL" \notin DOMAIN alerts
    /\ "SOL" \in DOMAIN prices

\* Thread i takes get_price's read-and-return step.
ReadsPrice(i) == pc[i] = "gp_read" /\ pc'[i] = "idle"

\* C12: get_price(T) returns None when no update_price of T with a valid
\* price has completed, and otherwise the price of the latest completed one;
\* and update_price stores every valid price, rule or no rule, alert or no
\* alert.
LatestValidPrice ==
    [][/\ \A i \in DOMAIN pc :
            ReadsPrice(i) =>
                result'[i] = IF op[i].token \in DOMAIN lastValid
                             THEN OkSome(lastValid[op[i].token], 1)
                             ELSE OkNone
       /\ \A i \in DOMAIN pc :
            (pc[i] = "up_insert" /\ pc'[i] = "up_lock_alerts" /\ op[i].arg > 0) =>
                PriceOf(prices', op[i].token) = OkSome(op[i].arg, 1)]_vars

\* C12 with "valid" dropped, which is what the code keeps: get_price(T)
\* returns None when no update_price of T has run, and otherwise the price of
\* the latest one, whatever its sign; update_price stores every price.
LatestPriceAnyInput ==
    [][/\ \A i \in DOMAIN pc :
            ReadsPrice(i) =>
                result'[i] = IF op[i].token \in DOMAIN lastEval
                             THEN OkSome(lastEval[op[i].token], 1)
                             ELSE OkNone
       /\ \A i \in DOMAIN pc :
            (pc[i] = "up_insert" /\ pc'[i] = "up_lock_alerts") =>
                PriceOf(prices', op[i].token) = OkSome(op[i].arg, 1)]_vars

\* The update_price call of thread i fires in this step.
Fires(i) == Evaluates(i) /\ result'[i].kind = "Ok(Some)"

\* The reference price of token t's rule is new or changed in this step.
ReferenceSet(t) ==
    /\ t \in DOMAIN alerts'
    /\ (t \in DOMAIN alerts => alerts'[t].last_price # alerts[t].last_price)

\* C13: a rule's reference price is never negative, and it takes a value other
\* than 0 only from an update_price of its token that fires the rule or that
\* finds the reference 0 (the first observation since registration); the
\* value is that call's price.
ReferencePriceInvariant ==
    [][\A t \in Tokens :
          /\ (t \in DOMAIN alerts' => alerts'[t].last_price >= 0)
          /\ (ReferenceSet(t) /\ alerts'[t].last_price # 0) =>
                \E i \in DOMAIN pc :
                    /\ Evaluates(i)
                    /\ op[i].token = t
                    /\ alerts'[t].last_price = op[i].arg
                    /\ (Fires(i) \/ alerts[t].last_price = 0)]_vars

\* C13 for positive prices, which is what the code keeps: from references
\* that are not negative, an update_price with a positive price leaves the
\* reference 0 or the price of the call that fired the rule or seeded it.
ReferencePriceInvariantPositive ==
    [][(/\ \A t \in DOMAIN alerts : alerts[t].last_price >= 0
        /\ \A i \in DOMAIN pc : Evaluates(i) => op[i].arg > 0) =>
       \A t \in Tokens :
          /\ (t \in DOMAIN alerts' => alerts'[t].last_price >= 0)
          /\ (ReferenceSet(t) /\ alerts'[t].last_price # 0) =>
                \E i \in DOMAIN pc :
                    /\ Evaluates(i)
                    /\ op[i].token = t
                    /\ alerts'[t].last_price = op[i].arg
                    /\ (Fires(i) \/ alerts[t].last_price = 0)]_vars

\* Thread i is inside update_price: it holds the prices write lock.
InIngest(i) ==
    pc[i] \in {"up_insert", "up_lock_alerts", "up_get", "up_eval",
               "up_unlock_alerts", "up_unlock_prices"}

\* C14: a thread about to call update_price for token A finds the lock it
\* needs first free of every update_price in progress for another token B.
NoCrossTokenContention ==
    \A i \in DOMAIN pc : \A j \in DOMAIN pc \ {i} : \A A \in Tokens :
        (pc[i] = "idle" /\ InIngest(j) /\ op[j].token # A) =>
            pricesLock.writer # j

\* What the code does instead of C14: update_price calls exclude each other
\* whatever their tokens, so no two are ever in progress together.
IngestsSerialized ==
    \A i \in DOMAIN pc : \A j \in DOMAIN pc \ {i} :
        ~(InIngest(i) /\ InIngest(j))

\* C15: the monitor has no subscriber, so every alert that fires is dropped
\* and the drop counter goes up by one.
DroppedAlertCounted ==
    [][\A i \in DOMAIN pc : Fires(i) => DropCounter' = DropCounter + 1]_vars

\* The part of C15 the code keeps: a fired alert reaches the caller only
\* after the call has released both locks, and the call returns Ok.
FiredAlertReturnedUnlocked ==
    \A i \in DOMAIN pc :
        (pc[i] = "idle" /\ op[i].name = "update_price") =>
            /\ result[i].kind \in {"Ok(Some)", "Ok(None)"}
            /\ alertsLock.writer # i
            /\ pricesLock.writer # i

\* Thread i takes add_alert's insert-and-return step.
Registers(i) == pc[i] = "add_insert" /\ pc'[i] = "idle"

\* The rule of token t is Armed: it exists and its reference price is not 0.
Armed(map, t) == t \in DOMAIN map /\ map[t].last_price # 0

\* The rule of token t is Unset: it exists and its reference price is 0.
Unset(map, t) == t \in DOMAIN map /\ map[t].last_price = 0

\* C16: an Armed rule stays Armed in every step, except that an add_alert of
\* its token makes it Unset and a remove_alert of its token removes it; no
\* update_price takes a rule out of Armed.
ArmedUntilRegisterOrUnregister ==
    [][\A t \in Tokens :
          Armed(alerts, t) =>
              /\ Unset(alerts', t) =>
                    \E i \in DOMAIN pc : Registers(i) /\ op[i].token = t
              /\ t \notin DOMAIN alerts' =>
                    \E i \in DOMAIN pc : Removes(i) /\ op[i].token = t]_vars

\* C16 for positive prices, which is what the code keeps: an update_price
\* with a positive price leaves every Armed rule Armed.
ArmedUnderPositivePrices ==
    [][(\A i \in DOMAIN pc : Evaluates(i) => op[i].arg > 0) =>
       \A t \in Tokens :
          Armed(alerts, t) =>
              /\ Unset(alerts', t) =>
                    \E i \in DOMAIN pc : Registers(i) /\ op[i].token = t
              /\ t \notin DOMAIN alerts' =>
                    \E i \in DOMAIN pc : Removes(i) /\ op[i].token = t]_vars

\* Thread i holds the lock, to write or to read.
Holds(lock, i) == lock.writer = i \/ i \in lock.readers

\* Thread i stands before a lock that it cannot take now.
Blocked(i) ==
    \/ pc[i] \in {"add_lock", "rm_lock", "up_lock_alerts"} /\ ~CanWrite(alertsLock)
    \/ pc[i] = "up_lock_prices" /\ ~CanWrite(pricesLock)
    \/ pc[i] = "gp_lock" /\ ~CanRead(pricesLock)
    \/ pc[i] = "gm_lock" /\ ~CanRead(alertsLock)

\* While a call is in progress some call can take a step.
NoDeadlock ==
    (\E i \in DOMAIN pc : pc[i] # "idle") =>
        \E j \in DOMAIN pc : pc[j] # "idle" /\ ~Blocked(j)

\* Only update_price holds both locks, and nobody who holds the alerts lock
\* stands before the prices lock.
LockOrder ==
    \A i \in DOMAIN pc :
        /\ (Holds(alertsLock, i) /\ Holds(pricesLock, i)) => op[i].name = "update_price"
        /\ pc[i] \in {"up_lock_prices", "gp_lock"} => ~Holds(alertsLock, i)
        /\ pc[i] = "up_lock_alerts" => pricesLock.writer = i

\* C17: no call in progress is ever stuck with all the others, the locks are
\* taken prices first, alerts second, and under fair scheduling every call
\* made returns.
DeadlockFreeAndComplete ==
    /\ [](NoDeadlock /\ LockOrder)
    /\ \A i \in Threads : (pc[i] # "idle") ~> (pc[i] = "idle")

\* An update_price that holds the prices lock waits for the alerts lock,
\* which an add_alert holds, while nothing else can proceed but that add_alert.
DeadlockFreeAndCompleteWitness ==
    \E i \in DOMAIN pc : \E j \in DOMAIN pc :
        /\ pc[i] = "up_lock_alerts" /\ Blocked(i)
        /\ pc[j] = "add_insert" /\ alertsLock.writer = j

\* No call is in progress.
Quiescent == \A i \in DOMAIN pc : pc[i] = "idle"

\* Thread i has just evaluated a rule and fired or seeded it.
JustFiredOrSeeded(i) ==
    /\ pc[i] = "up_unlock_alerts"
    /\ alert[i].found
    /\ (result[i].kind = "Ok(Some)" \/ ~IsSeeded(alert[i].last_price))

\* C18: prices are stored in the order in which they are evaluated: when no
\* call is in progress the stored price of every token is the price that was
\* evaluated last, and right after an update_price fired or seeded the rule
\* the rule's reference price is the stored price.
StoreFollowsEvaluation ==
    /\ Quiescent =>
          /\ DOMAIN prices = DOMAIN lastEval
          /\ \A t \in DOMAIN prices : prices[t].price = lastEval[t]
    /\ \A i \in DOMAIN pc :
          JustFiredOrSeeded(i) =>
              /\ op[i].token \in DOMAIN alerts
              /\ op[i].token \in DOMAIN prices
              /\ alerts[op[i].token].last_price = prices[op[i].token].price

\* Both threads have run update_price for SOL with different prices, the
\* later one fired, and nothing is in progress.
StoreFollowsEvaluationWitness ==
    /\ Quiescent
    /\ \A i \in DOMAIN pc : op[i].name = "update_price" /\ op[i].token = "SOL"
    /\ op[1].arg # op[2].arg
    /\ result[1].kind = "Ok(None)"
    /\ result[2].kind = "Ok(Some)"
    /\ "SOL" \in DOMAIN alerts
    /\ alerts["SOL"].last_price = op[2].arg
    /\ prices["SOL"].price = op[2].arg

\* Thread i takes a step of an update_price call.
IngestStep(i) == InIngest(i) /\ pc'[i] # pc[i]

\* The rule r with its reference price left out.
RuleButReference(r) ==
    [token |-> r.token, threshold_percent |-> r.threshold_percent, active |-> r.active]

\* C19: a step of update_price(T, p) adds no rule and removes none, changes
\* no rule's token, threshold_percent or active flag, changes the reference
\* price of no rule but T's, and the snapshot of no token but T; when T has
\* no rule the rules are unchanged.
IngestFrame ==
    [][\A i \in DOMAIN pc :
          IngestStep(i) =>
              /\ DOMAIN alerts' = DOMAIN alerts
              /\ \A t \in DOMAIN alerts :
                    /\ RuleButReference(alerts'[t]) = RuleButReference(alerts[t])
                    /\ t # op[i].token => alerts'[t] = alerts[t]
              /\ op[i].token \notin DOMAIN alerts => alerts' = alerts
              /\ DOMAIN prices' \subseteq DOMAIN prices \cup {op[i].token}
              /\ \A t \in DOMAIN prices :
                    t # op[i].token => (t \in DOMAIN prices' /\ prices'[t] = prices[t])]_vars

\* An update_price for SOL has just fired and moved SOL's reference price,
\* while BTC has a rule of its own.
IngestFrameWitness ==
    \E i \in DOMAIN pc :
        /\ pc[i] = "up_unlock_alerts"
        /\ op[i].token = "SOL"
        /\ result[i].kind = "Ok(Some)"
        /\ alerts["SOL"].last_price = op[i].arg
        /\ "BTC" \in DOMAIN alerts

====
